---- MODULE Spec2Model ----
(***************************************************************************)
(* Translation_agent: the task store (api/task_manager.py), the background *)
(* job (main.py run_translation_task), the pipeline                        *)
(* (api/services.py translate_document) and the dispatcher                 *)
(* (core/translation_engine.py parallel_group_translate / translate_group) *)
(* as one state machine.                                                   *)
(*                                                                         *)
(* Python values that may be None are records with a flag `none`, so that  *)
(* every variable keeps one shape.  A text is a record [lang, id]: the     *)
(* piece `id` of the request's document in the source language, its        *)
(* translation, or the empty string.                                       *)
(***************************************************************************)
EXTENDS Integers, Sequences, FiniteSets, TLC

\* ---------------------------------------------------------------- bounds
MaxTasks == 2            \* tasks submitted in one run of the model
MaxTotalChunks == 3      \* chunks of all submitted documents together
MAX_PARALLEL_GROUPS == 2 \* config.MAX_PARALLEL_GROUPS (an environment value)
SmallTokens == 100       \* token count of a short chunk
BigTokens == 9000        \* token count of a long chunk (two do not share a group)
HugeTokens == 17000      \* token count of a chunk above the group limit
MaxPieces == 7           \* pieces of a document handed to the chunker
CHUNK_TOKEN_LIMIT == 2   \* the chunk token ceiling the chunker is configured with
MaxGroupInput == 6       \* chunks of a list handed to the grouper
MaxLoopPieces == 4       \* pieces of a text handed to one loop of the chunker
MaxCeiling == 3          \* largest chunk token ceiling the loops are run with

\* ------------------------------------------------------ program constants
MAX_TOKENS == 48000
GROUP_TOKEN_RATIO_PERCENT == 35
DEFAULT_GROUP_SIZE == 4

Tasks == 1..MaxTasks
TokenChoices == {SmallTokens, BigTokens}
BackendErrors == {"timeout"}      \* str(e) of a failed backend call
NoError == "None"

\* --------------------------------------------------------------- helpers
RECURSIVE SumSeq(_)
SumSeq(s) == IF s = <<>> THEN 0 ELSE Head(s) + SumSeq(Tail(s))

RECURSIVE Concat(_)
Concat(ss) == IF ss = <<>> THEN <<>> ELSE Head(ss) \o Concat(Tail(ss))

\* A document is given by the token counts of the pieces the chunker cuts
\* it into; the pieces are numbered 1..Len(doc).  The first piece is a long
\* one: every way of packing n pieces into groups then comes from exactly one
\* document (a later long piece opens a group, a short one joins the group).
Documents ==
  {d \in UNION {[1..n -> TokenChoices] : n \in 1..MaxTotalChunks} :
     d[1] = BigTokens}

SourceText(i) == [lang |-> "source", id |-> i]
EmptyText == [lang |-> "empty", id |-> 0]

\* ------------------------------------------------------------------ text
\* A text is a sequence of characters.  "W" stands for a character that the
\* encoding writes with two tokens (its bytes are split between them), "R"
\* for the replacement character U+FFFD that decode puts where the bytes of
\* a token slice are no complete character.
Whitespace == {" ", "\n"}
Pieces == {<<"a">>, <<"W">>, <<".">>, <<"\n">>, <<"\n", "#", " ">>}

\* The documents handed to the chunker: at most that many pieces in a row.
ChunkerDocuments(pieces) ==
  {Concat(ps) : ps \in UNION {[1..n -> Pieces] : n \in 0..pieces}}

\* tiktoken's encode: the pair "aa" is one token (a merge of the encoding),
\* "W" is two tokens, every other character is one.
RECURSIVE encode(_)
encode(text) ==
  IF text = <<>> THEN <<>>
  ELSE IF Len(text) >= 2 /\ text[1] = "a" /\ text[2] = "a"
  THEN <<"aa">> \o encode(SubSeq(text, 3, Len(text)))
  ELSE IF text[1] = "W"
  THEN <<"w1", "w2">> \o encode(Tail(text))
  ELSE <<text[1]>> \o encode(Tail(text))

\* tiktoken's decode (errors = "replace"): the bytes of the tokens, read as
\* text; half a character reads as U+FFFD.
RECURSIVE decode(_)
decode(tokens) ==
  IF tokens = <<>> THEN <<>>
  ELSE IF tokens[1] = "aa"
  THEN <<"a", "a">> \o decode(Tail(tokens))
  ELSE IF tokens[1] = "w1" /\ Len(tokens) >= 2 /\ tokens[2] = "w2"
  THEN <<"W">> \o decode(SubSeq(tokens, 3, Len(tokens)))
  ELSE IF tokens[1] \in {"w1", "w2"}
  THEN <<"R">> \o decode(Tail(tokens))
  ELSE <<tokens[1]>> \o decode(Tail(tokens))

count_tokens(text) == Len(encode(text))

\* The text of a special token of the encoding, kept as one unit of a text.
SpecialToken == "<|endoftext|>"

\* tiktoken's encode raises ValueError on a text that holds the text of a
\* special token (disallowed_special = "all" is its default).
EncodeRaises(text) == \E i \in 1..Len(text) : text[i] = SpecialToken

\* Documents that hold a special token's text.
SpecialDocuments ==
  {<<SpecialToken>>, <<"a", SpecialToken>>, <<"W", "\n", SpecialToken, ".">>}

\* separator in content
Contains(content, separator) ==
  \E i \in 1..(Len(content) - Len(separator) + 1) :
    SubSeq(content, i, i + Len(separator) - 1) = separator

\* content.find(separator), from 1
Find(content, separator) ==
  CHOOSE i \in 1..(Len(content) - Len(separator) + 1) :
    /\ SubSeq(content, i, i + Len(separator) - 1) = separator
    /\ \A j \in 1..(i - 1) :
         SubSeq(content, j, j + Len(separator) - 1) # separator

\* content.split(separator)
RECURSIVE split(_, _)
split(content, separator) ==
  IF ~Contains(content, separator) THEN <<content>>
  ELSE LET i == Find(content, separator)
       IN <<SubSeq(content, 1, i - 1)>>
            \o split(SubSeq(content, i + Len(separator), Len(content)),
                     separator)

RECURSIVE lstrip(_)
lstrip(text) ==
  IF text # <<>> /\ Head(text) \in Whitespace THEN lstrip(Tail(text)) ELSE text

RECURSIVE rstrip(_)
rstrip(text) ==
  IF text # <<>> /\ text[Len(text)] \in Whitespace
  THEN rstrip(SubSeq(text, 1, Len(text) - 1)) ELSE text

\* text.strip()
strip(text) == rstrip(lstrip(text))

\* [chunk.strip() for chunk in chunks if chunk.strip()]
RECURSIVE StripAll(_)
StripAll(parts) ==
  IF parts = <<>> THEN <<>>
  ELSE IF strip(Head(parts)) = <<>> THEN StripAll(Tail(parts))
  ELSE <<strip(Head(parts))>> \o StripAll(Tail(parts))

\* The text without its whitespace characters.
RECURSIVE NonWhitespace(_)
NonWhitespace(text) ==
  IF text = <<>> THEN <<>>
  ELSE IF Head(text) \in Whitespace THEN NonWhitespace(Tail(text))
  ELSE <<Head(text)>> \o NonWhitespace(Tail(text))

\* ------------------------------------------------------ document chunker
Heading(n) == <<"\n">> \o [i \in 1..n |-> "#"] \o <<" ">>

\* config.CHUNK_SEPARATORS, in order.  The full-width marks are written by
\* their code points.
CHUNK_SEPARATORS ==
  <<Heading(1), Heading(2), Heading(3), Heading(4), Heading(5), Heading(6),
    <<"\n", "\n">>, <<"\n">>, <<"U+3002">>, <<".">>, <<"U+FF1F">>, <<"?">>,
    <<"U+FF01">>, <<"!">> >>

fine_separators ==
  << <<"\n", "\n">>, <<"\n">>, <<"U+3002">>, <<".">>, <<"U+FF1F">>, <<"?">>,
     <<"U+FF01">>, <<"!">> >>

\* Mutant: a heading separator is dropped like any other.
_split_by_separator_Dropped(content, separator) ==
  StripAll(split(content, separator))

\* _split_by_separator: a heading separator stays at the head of the parts
\* that follow it, any other separator is dropped by split.
_split_by_separator(content, separator) ==
  LET parts == split(content, separator)
  IN IF Len(separator) >= 2 /\ separator[1] = "\n" /\ separator[2] = "#"
     THEN StripAll([i \in 1..Len(parts) |->
                      IF i = 1 THEN parts[i] ELSE separator \o parts[i]])
     ELSE StripAll(parts)

\* Consecutive slices of at most n items.
RECURSIVE Slices(_, _)
Slices(s, n) ==
  IF s = <<>> THEN <<>>
  ELSE IF Len(s) <= n THEN <<s>>
  ELSE <<SubSeq(s, 1, n)>> \o Slices(SubSeq(s, n + 1, Len(s)), n)

\* _split_by_length with max_length = max_chunk_tokens * 3
_split_by_length(content) == Slices(content, CHUNK_TOKEN_LIMIT * 3)

\* Mutant: the slices are one token longer than the ceiling.
_force_split_by_tokens_long(content) ==
  LET slices == Slices(encode(content), CHUNK_TOKEN_LIMIT + 1)
  IN [i \in 1..Len(slices) |-> decode(slices[i])]

\* _force_split_by_tokens: slices of the token list, decoded.
_force_split_by_tokens(content) ==
  LET slices == Slices(encode(content), CHUNK_TOKEN_LIMIT)
  IN [i \in 1..Len(slices) |-> decode(slices[i])]

\* The loop over the parts in _split_large_chunk.
RECURSIVE ValidParts(_)
ValidParts(parts) ==
  IF parts = <<>> THEN <<>>
  ELSE IF count_tokens(Head(parts)) <= CHUNK_TOKEN_LIMIT
  THEN <<Head(parts)>> \o ValidParts(Tail(parts))
  ELSE _force_split_by_tokens(Head(parts)) \o ValidParts(Tail(parts))

\* _split_large_chunk, from the k-th fine separator on.
RECURSIVE SplitLargeFrom(_, _)
SplitLargeFrom(content, k) ==
  IF k > Len(fine_separators) THEN _force_split_by_tokens(content)
  ELSE IF Contains(content, fine_separators[k])
          /\ Len(ValidParts(_split_by_separator(content, fine_separators[k]))) > 1
  THEN ValidParts(_split_by_separator(content, fine_separators[k]))
  ELSE SplitLargeFrom(content, k + 1)

_split_large_chunk(content) == SplitLargeFrom(content, 1)

\* chunk_document, first pass: the first separator of CHUNK_SEPARATORS that
\* occurs in the content splits it; with none, or with no part left, the
\* content is cut by length.
UsedSeparators(content) ==
  {k \in 1..Len(CHUNK_SEPARATORS) : Contains(content, CHUNK_SEPARATORS[k])}

FirstPass(content) ==
  LET used == UsedSeparators(content)
      chunks == IF used = {} THEN <<>>
                ELSE _split_by_separator(
                       content,
                       CHUNK_SEPARATORS[CHOOSE k \in used : \A h \in used : k <= h])
  IN IF chunks = <<>> THEN _split_by_length(content) ELSE chunks

\* The metadata loop.
WithMetadata(parts) ==
  [i \in 1..Len(parts) |->
     [content |-> parts[i], tokens |-> count_tokens(parts[i]),
      chunk_id |-> i - 1, type |-> "chunk"]]

\* The sub-chunks of an oversized chunk, appended to final.
RECURSIVE AppendSubChunks(_, _)
AppendSubChunks(final, sub_chunks) ==
  IF sub_chunks = <<>> THEN final
  ELSE AppendSubChunks(
         Append(final, [content |-> Head(sub_chunks),
                        tokens |-> count_tokens(Head(sub_chunks)),
                        chunk_id |-> Len(final),
                        type |-> "sub_chunk"]),
         Tail(sub_chunks))

\* chunk_document, second pass: an oversized chunk is replaced by its
\* sub-chunks, numbered by their position in the final list; any other chunk
\* is appended as it is, with the id of the first pass.
RECURSIVE SecondPass(_, _)
SecondPass(final, rest) ==
  IF rest = <<>> THEN final
  ELSE IF Head(rest).tokens > CHUNK_TOKEN_LIMIT
  THEN SecondPass(AppendSubChunks(final, _split_large_chunk(Head(rest).content)),
                  Tail(rest))
  ELSE SecondPass(Append(final, Head(rest)), Tail(rest))

\* Mutant: the single chunk holds the stripped content.
CompleteChunk_Stripped(content) ==
  <<[content |-> strip(content), tokens |-> count_tokens(content),
     chunk_id |-> 0, type |-> "complete"]>>

\* The early return for a document within the ceiling.
CompleteChunk(content) ==
  <<[content |-> content, tokens |-> count_tokens(content), chunk_id |-> 0,
     type |-> "complete"]>>

\* -------------------------------------------------------------- chunking
\* chunk_document's metadata loop: one record per piece, chunk_id dense from 0.
ChunksOf(doc) ==
  [i \in 1..Len(doc) |->
     [content |-> SourceText(i), tokens |-> doc[i], chunk_id |-> i - 1]]

max_group_tokens == (MAX_TOKENS * GROUP_TOKEN_RATIO_PERCENT) \div 100

\* Mutant: the group that is closed is not kept.
GroupStep_DropClosed(st, chunk) ==
  IF Len(st.current) < DEFAULT_GROUP_SIZE
     /\ st.tokens + chunk.tokens <= max_group_tokens
  THEN [groups |-> st.groups,
        current |-> Append(st.current, chunk),
        tokens |-> st.tokens + chunk.tokens]
  ELSE [groups |-> st.groups, current |-> <<chunk>>, tokens |-> chunk.tokens]

\* Mutant: the number of chunks of a group is not limited.
GroupStep_AnySize(st, chunk) ==
  IF st.tokens + chunk.tokens <= max_group_tokens
  THEN [groups |-> st.groups,
        current |-> Append(st.current, chunk),
        tokens |-> st.tokens + chunk.tokens]
  ELSE [groups |-> IF st.current # <<>> THEN Append(st.groups, st.current)
                   ELSE st.groups,
        current |-> <<chunk>>,
        tokens |-> chunk.tokens]

\* Mutant: a group is closed one chunk before DEFAULT_GROUP_SIZE.
GroupStep_Early(st, chunk) ==
  IF Len(st.current) < DEFAULT_GROUP_SIZE - 1
     /\ st.tokens + chunk.tokens <= max_group_tokens
  THEN [groups |-> st.groups,
        current |-> Append(st.current, chunk),
        tokens |-> st.tokens + chunk.tokens]
  ELSE [groups |-> IF st.current # <<>> THEN Append(st.groups, st.current)
                   ELSE st.groups,
        current |-> <<chunk>>,
        tokens |-> chunk.tokens]

\* Mutant: the current group is closed without the "if current_group" test.
GroupStep_AppendEmpty(st, chunk) ==
  IF Len(st.current) < DEFAULT_GROUP_SIZE
     /\ st.tokens + chunk.tokens <= max_group_tokens
  THEN [groups |-> st.groups,
        current |-> Append(st.current, chunk),
        tokens |-> st.tokens + chunk.tokens]
  ELSE [groups |-> Append(st.groups, st.current),
        current |-> <<chunk>>,
        tokens |-> chunk.tokens]

\* create_chunk_groups: greedy forward packing.  st = [groups, current, tokens].
GroupStep(st, chunk) ==
  IF Len(st.current) < DEFAULT_GROUP_SIZE
     /\ st.tokens + chunk.tokens <= max_group_tokens
  THEN [groups |-> st.groups,
        current |-> Append(st.current, chunk),
        tokens |-> st.tokens + chunk.tokens]
  ELSE [groups |-> IF st.current # <<>> THEN Append(st.groups, st.current)
                   ELSE st.groups,
        current |-> <<chunk>>,
        tokens |-> chunk.tokens]

RECURSIVE GroupFold(_, _)
GroupFold(st, cs) ==
  IF cs = <<>> THEN st ELSE GroupFold(GroupStep(st, Head(cs)), Tail(cs))

create_chunk_groups(cs) ==
  LET st == GroupFold([groups |-> <<>>, current |-> <<>>, tokens |-> 0], cs)
  IN IF st.current # <<>> THEN Append(st.groups, st.current) ELSE st.groups

\* ------------------------------------------------------ translation engine
NoneList == [none |-> TRUE, items |-> <<>>]
PyList(items) == [none |-> FALSE, items |-> items]

\* The backend stub: llm.invoke answers piece i with the translation of piece
\* i; count_tokens finds it one token longer than the source piece.
LLMResponse(chunk) ==
  [content |-> [lang |-> "target", id |-> chunk.content.id],
   tokens |-> chunk.tokens + 1]

\* translate_group, the result of a successful call.
SuccessResult(chunk) ==
  [original_content |-> chunk.content,
   translated_content |-> LLMResponse(chunk).content,
   chunk_id |-> chunk.chunk_id,
   input_tokens |-> chunk.tokens,
   output_tokens |-> LLMResponse(chunk).tokens,
   success |-> TRUE,
   error |-> NoError]

\* The failed result of one chunk (translate_group and translate_single_group).
FailedResult(chunk, err) ==
  [original_content |-> chunk.content,
   translated_content |-> EmptyText,
   chunk_id |-> chunk.chunk_id,
   input_tokens |-> 0,
   output_tokens |-> 0,
   success |-> FALSE,
   error |-> err]

\* translate_single_group's except branch: a failed result for every chunk.
AllFailed(group, err) == [i \in 1..Len(group) |-> FailedResult(group[i], err)]

\* Mutant: the except branch rebuilds the whole list, successes included.
FailedTail_All(res, group, err) == AllFailed(group, err)

\* translate_group's except branch: a failed result for every chunk from
\* position len(results) on.
FailedTail(res, group, err) ==
  res \o [i \in 1..(Len(group) - Len(res)) |->
            FailedResult(group[Len(res) + i], err)]

\* Mutant: the results are stored in order of arrival, not by group index.
StoreGroupResult_Arrival(slots, idx, res) ==
  [slots EXCEPT ![Cardinality({i \in 1..Len(slots) : ~slots[i].none}) + 1] = res]

\* group_results[result_group_index] = results
StoreGroupResult(slots, idx, res) == [slots EXCEPT ![idx] = res]

\* "if group_result: all_results.extend(group_result)", slot by slot.
Truthy(slot) == ~slot.none /\ slot.items # <<>>
\* Mutant: the flattening stops at the first group that holds a failure.
Flatten_StopAtFailure(slots) ==
  LET bad == {i \in 1..Len(slots) :
                \E j \in 1..Len(slots[i].items) : ~slots[i].items[j].success}
  IN Concat([i \in 1..Len(slots) |->
               IF Truthy(slots[i]) /\ \A b \in bad : i <= b
               THEN slots[i].items ELSE <<>>])

Flatten(slots) ==
  Concat([i \in 1..Len(slots) |->
            IF Truthy(slots[i]) THEN slots[i].items ELSE <<>>])

\* ----------------------------------------------------------- the service
NoneResult ==
  [none |-> TRUE, translated_content |-> <<>>,
   usage |-> [input_tokens |-> 0, output_tokens |-> 0]]

\* One part of the final text: the translation, or the marked failure block
\* with the error and the original content.
Part(result) ==
  IF result.success
  THEN [kind |-> "translated", error |-> NoError,
        text |-> result.translated_content]
  ELSE [kind |-> "failed", error |-> result.error,
        text |-> result.original_content]

InputTokensOf(result) == IF result.success THEN result.input_tokens ELSE 0

\* Mutant: the output total is fed from the input counts.
OutputTokensOf_Input(result) ==
  IF result.success THEN result.input_tokens ELSE 0

OutputTokensOf(result) == IF result.success THEN result.output_tokens ELSE 0

\* translate_document's assembly loop; the parts are joined by a blank line.
Assemble(translation_results) ==
  [none |-> FALSE,
   translated_content |->
     [i \in 1..Len(translation_results) |-> Part(translation_results[i])],
   usage |->
     [input_tokens |->
        SumSeq([i \in 1..Len(translation_results) |->
                  InputTokensOf(translation_results[i])]),
      output_tokens |->
        SumSeq([i \in 1..Len(translation_results) |->
                  OutputTokensOf(translation_results[i])])]]

\* ------------------------------------------------------------ task store
NewTask(request_data) ==
  [status |-> "pending", result |-> NoneResult, error |-> NoError,
   request_data |-> request_data]

\* Mutant: the status is not written.
set_status_Skipped(ts, task_id, status) == ts

\* Mutant: the status is written to every record of the store.
set_status_all(ts, task_id, status) ==
  [i \in DOMAIN ts |-> [ts[i] EXCEPT !.status = status]]

set_status(ts, task_id, status) == [ts EXCEPT ![task_id].status = status]

\* Mutant: set_result writes the status where it should write the result.
write_result_StatusFirst(ts, task_id, result) ==
  [ts EXCEPT ![task_id].status = "completed"]

write_result(ts, task_id, result) == [ts EXCEPT ![task_id].result = result]

\* Mutant: the error text is written to every record of the store.
write_error_All(ts, task_id, msg) ==
  [i \in DOMAIN ts |-> [ts[i] EXCEPT !.error = msg]]

write_error(ts, task_id, msg) == [ts EXCEPT ![task_id].error = msg]

\* Mutant: a write to an unknown id does not raise.
KeyErrorOn_Never(ts, task_id) == FALSE

\* set_status, set_result, set_error: "if task_id in self._tasks: ... else:
\* raise KeyError".
KeyErrorOn(ts, task_id) == task_id \notin DOMAIN ts

\* get_task: the record, or None for an unknown id.
get_task(ts, task_id) ==
  IF task_id \in DOMAIN ts
  THEN [none |-> FALSE, record |-> ts[task_id]]
  ELSE [none |-> TRUE]

\* GET /translation/status/{task_id}
get_task_status(ts, task_id) ==
  LET task == get_task(ts, task_id)
  IN IF task.none
     THEN [outcome |-> "404"]
     ELSE [outcome |-> "200", status |-> task.record.status,
           error |-> task.record.error]

\* GET /translation/result/{task_id}.  With task["result"] = None the
\* subscription result_data["translated_content"] raises TypeError.
get_task_result(ts, task_id) ==
  LET task == get_task(ts, task_id)
  IN IF task.none
     THEN [outcome |-> "404"]
     ELSE IF task.record.status # "completed"
     THEN [outcome |-> "202", status |-> task.record.status]
     ELSE IF task.record.result.none
     THEN [outcome |-> "TypeError"]
     ELSE [outcome |-> "200", status |-> task.record.status,
           translated_content |-> task.record.result.translated_content,
           original_content |-> task.record.request_data.content,
           usage |-> task.record.result.usage]

\* ------------------------------------------------------------------ state
VARIABLES
  tasks,            \* TaskManager._tasks: task id -> record (ids are 1..Len)
  pc,               \* position of each task's background job
  exc,              \* the exception run_translation_task has caught
  chunks,           \* translate_document: the chunk list
  groups,           \* translate_document: the chunk groups
  wstate,           \* position of the worker of each group
  results,          \* translate_group: the local list `results`
  fut,              \* what translate_single_group returned for each group
  group_results,    \* parallel_group_translate: the slots, one per group
  completed_groups, \* parallel_group_translate: the counter
  processed,        \* futures as_completed has already yielded
  all_results,      \* what parallel_group_translate returned
  retval,           \* what translate_document returned
  permits,          \* TranslationEngine.parallel_semaphore
  holders,          \* history: groups inside "with self.parallel_semaphore"
  inflight,         \* history: backend calls in flight, <<task, group, position>>
  entry,            \* history: how each group's translate_group began
  outcomes,         \* history: outcome of every backend call of each group
  out_of_order,     \* history: a future was collected before a lower group's
  failure,          \* history: how the pipeline of each task failed, if it did
  response,         \* the last call a client made on the task store and its outcome
  progress,         \* history: the invocations of progress_callback
  hung,             \* backend calls that never come back, <<task, group>>
  document,         \* chunk_document: the content it was called with
  stage,            \* position in chunk_document / create_chunk_groups
  result_chunks,    \* chunk_document: the chunks of the first pass
  final_chunks,     \* chunk_document: the list it returns
  chunk_groups,     \* create_chunk_groups: the list it returns
  loop              \* one loop of the chunker, run turn by turn

vars == <<tasks, pc, exc, chunks, groups, wstate, results, fut, group_results,
          completed_groups, processed, all_results, retval, permits, holders,
          inflight, entry, outcomes, out_of_order, failure, response, progress,
          hung,
          document, stage, result_chunks, final_chunks, chunk_groups, loop>>

unitVars == <<document, stage, result_chunks, final_chunks, chunk_groups, loop>>
auxVars == <<response, progress, hung, unitVars>>

jobVars == <<chunks, groups, group_results, completed_groups, processed,
             all_results, retval, out_of_order>>
workerVars == <<wstate, results, fut, permits, holders, inflight, entry,
                outcomes>>

StepError == "step failed"      \* str(e) of an exception raised by a step entry

NoResponse == [op |-> "none"]   \* no call on the task store yet

\* progress_callback has not been invoked and is not executing.
NoProgress == [calls |-> <<>>, active |-> {}]

\* No request has arrived: the store is empty, no job runs, the semaphore of
\* the engine holds all its permits.
PipelineIdle ==
  /\ tasks = <<>>
  /\ pc = [t \in Tasks |-> "idle"]
  /\ exc = [t \in Tasks |-> NoError]
  /\ chunks = [t \in Tasks |-> <<>>]
  /\ groups = [t \in Tasks |-> <<>>]
  /\ wstate = [t \in Tasks |-> <<>>]
  /\ results = [t \in Tasks |-> <<>>]
  /\ fut = [t \in Tasks |-> <<>>]
  /\ group_results = [t \in Tasks |-> <<>>]
  /\ completed_groups = [t \in Tasks |-> 0]
  /\ processed = [t \in Tasks |-> {}]
  /\ all_results = [t \in Tasks |-> <<>>]
  /\ retval = [t \in Tasks |-> NoneResult]
  /\ permits = MAX_PARALLEL_GROUPS
  /\ holders = {}
  /\ inflight = {}
  /\ entry = [t \in Tasks |-> <<>>]
  /\ outcomes = [t \in Tasks |-> <<>>]
  /\ out_of_order = [t \in Tasks |-> FALSE]
  /\ failure = [t \in Tasks |-> "none"]
  /\ response = NoResponse
  /\ progress = NoProgress
  /\ hung = {}

\* No loop of the chunker is being followed.
NoLoop ==
  [fn |-> "none", max_chunk_tokens |-> 0, items |-> <<>>, current_pos |-> 0,
   chunks |-> <<>>]

\* The chunker and the grouper have not been called.
UnitIdle ==
  /\ document = <<>>
  /\ stage = "none"
  /\ result_chunks = <<>>
  /\ final_chunks = <<>>
  /\ chunk_groups = <<>>
  /\ loop = NoLoop

Init == PipelineIdle /\ UnitIdle

GroupIds(t) == 1..Len(groups[t])

\* Chunks of the documents submitted so far.
SubmittedChunks ==
  SumSeq([i \in 1..Len(tasks) |-> Len(tasks[i].request_data.content)])

\* ------------------------------------------------------------ main.py
\* start_translation: create_task stores the request snapshot under a fresh
\* id and the job run_translation_task is added to the background tasks.
start_translation(doc) ==
  /\ Len(tasks) < MaxTasks
  /\ SubmittedChunks + Len(doc) <= MaxTotalChunks
  /\ tasks' = Append(tasks, NewTask([content |-> doc]))
  /\ pc' = [pc EXCEPT ![Len(tasks) + 1] = "queued"]
  /\ UNCHANGED <<exc, failure>>
  /\ UNCHANGED jobVars
  /\ UNCHANGED workerVars
  /\ UNCHANGED auxVars

\* run_translation_task: task_manager.set_status(task_id, "running")
SetRunning(t) ==
  /\ pc[t] = "queued"
  /\ tasks' = set_status(tasks, t, "running")
  /\ pc' = [pc EXCEPT ![t] = "translate"]
  /\ UNCHANGED <<exc, failure>>
  /\ UNCHANGED jobVars
  /\ UNCHANGED workerVars
  /\ UNCHANGED auxVars

\* translate_document up to the submission of the groups to the executor.
\* logger.step swallows an exception raised inside its body (its except
\* branch does not re-raise), and the function then returns None; an
\* exception raised by the entry of the outermost step escapes.
TranslateDocument(t) ==
  /\ pc[t] = "translate"
  /\ \/ \* the entry of step "translate_document_service" raises
        /\ pc' = [pc EXCEPT ![t] = "except"]
        /\ exc' = [exc EXCEPT ![t] = StepError]
        /\ failure' = [failure EXCEPT ![t] = "escaped"]
        /\ UNCHANGED <<tasks>>
        /\ UNCHANGED jobVars
        /\ UNCHANGED workerVars
     \/ \* chunk_document raises (the tokenizer refuses the text): swallowed
        \* twice, translate_document returns None
        /\ pc' = [pc EXCEPT ![t] = "set_result"]
        /\ retval' = [retval EXCEPT ![t] = NoneResult]
        /\ failure' = [failure EXCEPT ![t] = "swallowed"]
        /\ UNCHANGED <<tasks, exc, chunks, groups, group_results,
                       completed_groups, processed, all_results, out_of_order>>
        /\ UNCHANGED workerVars
     \/ \* chunking, grouping, executor.submit for every group
        LET cs == ChunksOf(tasks[t].request_data.content)
            gs == create_chunk_groups(cs)
        IN /\ chunks' = [chunks EXCEPT ![t] = cs]
           /\ groups' = [groups EXCEPT ![t] = gs]
           /\ group_results' =
                [group_results EXCEPT ![t] = [g \in 1..Len(gs) |-> NoneList]]
           /\ wstate' = [wstate EXCEPT ![t] = [g \in 1..Len(gs) |-> "queued"]]
           /\ results' = [results EXCEPT ![t] = [g \in 1..Len(gs) |-> <<>>]]
           /\ fut' = [fut EXCEPT ![t] = [g \in 1..Len(gs) |-> NoneList]]
           /\ entry' = [entry EXCEPT ![t] = [g \in 1..Len(gs) |-> "none"]]
           /\ outcomes' = [outcomes EXCEPT ![t] = [g \in 1..Len(gs) |-> <<>>]]
           /\ pc' = [pc EXCEPT ![t] = "dispatch"]
           /\ UNCHANGED <<tasks, exc, failure, completed_groups, processed,
                          all_results, retval, out_of_order, permits, holders,
                          inflight>>
  /\ UNCHANGED auxVars

\* ------------------------------------------------- the executor's workers
Running(t) ==
  {g \in GroupIds(t) : wstate[t][g] \in {"waiting", "loop", "calling", "release"}}

\* Mutant: the pool of a call has a single thread.
CanDequeue_OneThread(t, g) ==
  /\ Running(t) = {}
  /\ \A h \in GroupIds(t) : h < g => wstate[t][h] # "queued"

\* A pool thread is free and the group is the oldest one in the work queue.
CanDequeue(t, g) ==
  /\ Cardinality(Running(t)) < MAX_PARALLEL_GROUPS
  /\ \A h \in GroupIds(t) : h < g => wstate[t][h] # "queued"

\* A thread of the call's pool takes the group; it then waits at
\* "with self.parallel_semaphore".
Dequeue(t, g) ==
  /\ pc[t] = "dispatch"
  /\ wstate[t][g] = "queued"
  /\ CanDequeue(t, g)
  /\ wstate' = [wstate EXCEPT ![t][g] = "waiting"]
  /\ UNCHANGED <<tasks, pc, exc, failure, results, fut, permits, holders,
                 inflight, entry, outcomes>>
  /\ UNCHANGED jobVars
  /\ UNCHANGED auxVars

\* Mutant: the semaphore never blocks.
CanAcquire_NoLimit == TRUE

\* Semaphore.acquire blocks while the counter is 0.
CanAcquire == permits > 0

\* The worker acquires the semaphore and enters translate_group, up to its
\* first backend call.
Acquire(t, g) ==
  /\ wstate[t][g] = "waiting"
  /\ CanAcquire
  /\ permits' = permits - 1
  /\ holders' = holders \cup {<<t, g>>}
  /\ \/ \* the preparation succeeds: results = [], the loop begins
        /\ entry' = [entry EXCEPT ![t][g] = "ok"]
        /\ wstate' = [wstate EXCEPT ![t][g] = "loop"]
        /\ UNCHANGED fut
     \/ \* the entry of step "translate_group" raises: translate_single_group
        \* catches it and returns a failed result for every chunk
        /\ entry' = [entry EXCEPT ![t][g] = "raised"]
        /\ fut' = [fut EXCEPT ![t][g] = PyList(AllFailed(groups[t][g], StepError))]
        /\ wstate' = [wstate EXCEPT ![t][g] = "release"]
     \/ \* the preparation inside the step raises before the try (the lookup
        \* config.SYSTEM_PROMPTS["translation"]; config.py defines only the
        \* key "group_translation"): the step swallows it, translate_group
        \* returns None
        /\ entry' = [entry EXCEPT ![t][g] = "swallowed"]
        /\ fut' = [fut EXCEPT ![t][g] = NoneList]
        /\ wstate' = [wstate EXCEPT ![t][g] = "release"]
  /\ UNCHANGED <<tasks, pc, exc, failure, results, inflight, outcomes>>
  /\ UNCHANGED jobVars
  /\ UNCHANGED auxVars

\* self.llm.invoke(messages) for the chunk at position len(results) + 1.
StartCall(t, g) ==
  /\ wstate[t][g] = "loop"
  /\ Len(results[t][g]) < Len(groups[t][g])
  /\ wstate' = [wstate EXCEPT ![t][g] = "calling"]
  /\ inflight' = inflight \cup {<<t, g, Len(results[t][g]) + 1>>}
  /\ UNCHANGED <<tasks, pc, exc, failure, results, fut, permits, holders,
                 entry, outcomes>>
  /\ UNCHANGED jobVars
  /\ UNCHANGED auxVars

\* Mutant: a worker whose call failed ends without giving its permit back.
AfterCall_NoRelease(ok, done) ==
  IF ok /\ ~done THEN "loop" ELSE IF ok THEN "release" ELSE "done"

\* Mutant: a failed call does not leave the loop.
AfterCall_Retry(ok, done) == IF ~done THEN "loop" ELSE "release"

\* Where the worker goes after a backend call: on, or out of the loop.
AfterCall(ok, done) == IF ok /\ ~done THEN "loop" ELSE "release"

\* The backend call returns or raises.
CallReturn(t, g) ==
  /\ wstate[t][g] = "calling"
  /\ LET group == groups[t][g]
         res == results[t][g]
         pos == Len(res) + 1
     IN /\ inflight' = inflight \ {<<t, g, pos>>}
        /\ \/ \* success: the result is appended; after the last chunk the
              \* list is returned
              LET res2 == Append(res, SuccessResult(group[pos]))
              IN /\ results' = [results EXCEPT ![t][g] = res2]
                 /\ outcomes' = [outcomes EXCEPT ![t][g] = Append(@, "ok")]
                 /\ wstate' = [wstate EXCEPT ![t][g] =
                                 AfterCall(TRUE, Len(res2) = Len(group))]
                 /\ fut' = IF Len(res2) = Len(group)
                           THEN [fut EXCEPT ![t][g] = PyList(res2)]
                           ELSE fut
           \/ \* failure: the except branch fills the rest with failed results
              \E err \in BackendErrors :
                /\ outcomes' = [outcomes EXCEPT ![t][g] = Append(@, err)]
                /\ fut' = [fut EXCEPT ![t][g] = PyList(FailedTail(res, group, err))]
                /\ wstate' = [wstate EXCEPT ![t][g] = AfterCall(FALSE, FALSE)]
                /\ UNCHANGED results
  /\ UNCHANGED <<tasks, pc, exc, failure, permits, holders, entry>>
  /\ UNCHANGED jobVars
  /\ UNCHANGED auxVars

\* The end of "with self.parallel_semaphore": the permit goes back and the
\* future completes.
Release(t, g) ==
  /\ wstate[t][g] = "release"
  /\ permits' = permits + 1
  /\ holders' = holders \ {<<t, g>>}
  /\ wstate' = [wstate EXCEPT ![t][g] = "done"]
  /\ UNCHANGED <<tasks, pc, exc, failure, results, fut, inflight, entry,
                 outcomes>>
  /\ UNCHANGED jobVars
  /\ UNCHANGED auxVars

\* ------------------------------------- parallel_group_translate, main thread
\* One turn of the as_completed loop.  With results = None the slot is
\* written and the counter raised before len(results) raises; the loop's
\* except branch logs that and goes on.
Collect(t, g) ==
  /\ pc[t] = "dispatch"
  /\ wstate[t][g] = "done"
  /\ g \notin processed[t]
  /\ group_results' = [group_results EXCEPT
                         ![t] = StoreGroupResult(@, g, fut[t][g])]
  /\ completed_groups' = [completed_groups EXCEPT ![t] = @ + 1]
  /\ processed' = [processed EXCEPT ![t] = @ \cup {g}]
  /\ out_of_order' = [out_of_order EXCEPT
                        ![t] = @ \/ \E h \in GroupIds(t) :
                                      h < g /\ h \notin processed[t]]
  /\ UNCHANGED <<tasks, pc, exc, failure, chunks, groups, all_results, retval>>
  /\ UNCHANGED workerVars
  /\ UNCHANGED auxVars

\* Mutant: the call returns once the first future has been collected.
ExecutorDone_First(t) == processed[t] # {}

\* The as_completed loop has yielded every future and the "with" block of
\* the executor has ended (shutdown waits for every worker).
ExecutorDone(t) == processed[t] = GroupIds(t)

\* The executor has shut down: the slots are flattened and returned, and
\* translate_document assembles the final text and the usage.
ReturnResults(t) ==
  /\ pc[t] = "dispatch"
  /\ ExecutorDone(t)
  /\ all_results' = [all_results EXCEPT ![t] = Flatten(group_results[t])]
  /\ retval' = [retval EXCEPT ![t] = Assemble(Flatten(group_results[t]))]
  /\ pc' = [pc EXCEPT ![t] = "set_result"]
  /\ UNCHANGED <<tasks, exc, failure, chunks, groups, group_results,
                 completed_groups, processed, out_of_order>>
  /\ UNCHANGED workerVars
  /\ UNCHANGED auxVars

\* ------------------------------------------- run_translation_task, the end
\* set_result: self._tasks[task_id]["result"] = result
SetResultWrite(t) ==
  /\ pc[t] = "set_result"
  /\ tasks' = write_result(tasks, t, retval[t])
  /\ pc' = [pc EXCEPT ![t] = "set_result_status"]
  /\ UNCHANGED <<exc, failure>>
  /\ UNCHANGED jobVars
  /\ UNCHANGED workerVars
  /\ UNCHANGED auxVars

\* set_result: self.set_status(task_id, "completed")
SetResultStatus(t) ==
  /\ pc[t] = "set_result_status"
  /\ tasks' = set_status(tasks, t, "completed")
  /\ pc' = [pc EXCEPT ![t] = "done"]
  /\ UNCHANGED <<exc, failure>>
  /\ UNCHANGED jobVars
  /\ UNCHANGED workerVars
  /\ UNCHANGED auxVars

\* except Exception as e: app.logger.error(...).  The application object is
\* the web framework's; whether it has a logger is not decided by this
\* repository, so the call either returns or raises out of the handler.
ExceptLog(t) ==
  /\ pc[t] = "except"
  /\ \/ pc' = [pc EXCEPT ![t] = "set_error"]
     \/ pc' = [pc EXCEPT ![t] = "crashed"]
  /\ UNCHANGED <<tasks, exc, failure>>
  /\ UNCHANGED jobVars
  /\ UNCHANGED workerVars
  /\ UNCHANGED auxVars

\* set_error: self._tasks[task_id]["error"] = error_message
SetErrorWrite(t) ==
  /\ pc[t] = "set_error"
  /\ tasks' = write_error(tasks, t, exc[t])
  /\ pc' = [pc EXCEPT ![t] = "set_error_status"]
  /\ UNCHANGED <<exc, failure>>
  /\ UNCHANGED jobVars
  /\ UNCHANGED workerVars
  /\ UNCHANGED auxVars

\* set_error: self.set_status(task_id, "failed")
SetErrorStatus(t) ==
  /\ pc[t] = "set_error_status"
  /\ tasks' = set_status(tasks, t, "failed")
  /\ pc' = [pc EXCEPT ![t] = "done"]
  /\ UNCHANGED <<exc, failure>>
  /\ UNCHANGED jobVars
  /\ UNCHANGED workerVars
  /\ UNCHANGED auxVars

\* --------------------------------------------------------- specification
Next ==
  \/ \E doc \in Documents : start_translation(doc)
  \/ \E t \in Tasks :
       \/ SetRunning(t)
       \/ TranslateDocument(t)
       \/ ReturnResults(t)
       \/ SetResultWrite(t)
       \/ SetResultStatus(t)
       \/ ExceptLog(t)
       \/ SetErrorWrite(t)
       \/ SetErrorStatus(t)
       \/ \E g \in GroupIds(t) :
            \/ Dequeue(t, g)
            \/ Acquire(t, g)
            \/ StartCall(t, g)
            \/ CallReturn(t, g)
            \/ Release(t, g)
            \/ Collect(t, g)

Spec == Init /\ [][Next]_vars

\* Scheduling: a thread that can take a step eventually takes it, and every
\* backend call eventually returns or raises.  The job of a task runs in a
\* thread of the server's pool, the workers in the threads of the call's
\* executor.
JobFairness(t) ==
  /\ WF_vars(SetRunning(t))
  /\ WF_vars(TranslateDocument(t))
  /\ WF_vars(ReturnResults(t))
  /\ WF_vars(SetResultWrite(t))
  /\ WF_vars(SetResultStatus(t))
  /\ WF_vars(ExceptLog(t))
  /\ WF_vars(SetErrorWrite(t))
  /\ WF_vars(SetErrorStatus(t))

WorkerFairness(t, g) ==
  /\ WF_vars(g \in GroupIds(t) /\ Dequeue(t, g))
  /\ WF_vars(g \in GroupIds(t) /\ Acquire(t, g))
  /\ WF_vars(g \in GroupIds(t) /\ StartCall(t, g))
  /\ WF_vars(g \in GroupIds(t) /\ CallReturn(t, g))
  /\ WF_vars(g \in GroupIds(t) /\ Release(t, g))
  /\ WF_vars(g \in GroupIds(t) /\ Collect(t, g))

FairSpec ==
  /\ Spec
  /\ \A t \in Tasks : JobFairness(t)
  /\ \A t \in Tasks : \A g \in 1..MaxTotalChunks : WorkerFairness(t, g)

\* ------------------------------------------- the task store and its clients
\* The TaskManager object and the two GET handlers under the calls of any
\* client.  Writes to a known id come in the order run_translation_task
\* makes them; any call may name an unknown id.
StoreDocuments == {<<BigTokens>>, <<SmallTokens>>}

\* What translate_document can hand to set_result for a document: None, or
\* the assembly of its chunks' results.
PipelineResults(doc) ==
  {NoneResult,
   Assemble([i \in 1..Len(doc) |-> SuccessResult(ChunksOf(doc)[i])]),
   Assemble(AllFailed(ChunksOf(doc), "timeout"))}

StoreUnchanged ==
  UNCHANGED <<pc, exc, chunks, groups, wstate, results, fut, group_results,
              completed_groups, processed, all_results, retval, permits,
              holders, inflight, entry, outcomes, out_of_order, failure,
              progress, hung, unitVars>>

StoreCreateTask(doc) ==
  /\ Len(tasks) < MaxTasks
  /\ tasks' = Append(tasks, NewTask([content |-> doc]))
  /\ response' = [op |-> "create_task", id |-> Len(tasks) + 1,
                  outcome |-> "returned", request_data |-> [content |-> doc]]
  /\ StoreUnchanged

StoreSetStatus(id) ==
  /\ id \in DOMAIN tasks => tasks[id].status = "pending"
  /\ tasks' = IF KeyErrorOn(tasks, id) THEN tasks
              ELSE set_status(tasks, id, "running")
  /\ response' = [op |-> "set_status", id |-> id,
                  outcome |-> IF KeyErrorOn(tasks, id) THEN "KeyError"
                              ELSE "returned"]
  /\ StoreUnchanged

StoreSetResult(id, result) ==
  /\ id \in DOMAIN tasks =>
       /\ tasks[id].status = "running"
       /\ result \in PipelineResults(tasks[id].request_data.content)
  /\ tasks' = IF KeyErrorOn(tasks, id) THEN tasks
              ELSE set_status(write_result(tasks, id, result), id, "completed")
  /\ response' = [op |-> "set_result", id |-> id,
                  outcome |-> IF KeyErrorOn(tasks, id) THEN "KeyError"
                              ELSE "returned"]
  /\ StoreUnchanged

StoreSetError(id, msg) ==
  /\ id \in DOMAIN tasks => tasks[id].status = "running"
  /\ tasks' = IF KeyErrorOn(tasks, id) THEN tasks
              ELSE set_status(write_error(tasks, id, msg), id, "failed")
  /\ response' = [op |-> "set_error", id |-> id,
                  outcome |-> IF KeyErrorOn(tasks, id) THEN "KeyError"
                              ELSE "returned"]
  /\ StoreUnchanged

StoreGetTask(id) ==
  /\ response' = [op |-> "get_task", id |-> id, outcome |-> "returned",
                  value |-> get_task(tasks, id)]
  /\ UNCHANGED tasks
  /\ StoreUnchanged

StoreGetStatus(id) ==
  /\ response' = [op |-> "get_task_status", id |-> id,
                  outcome |-> get_task_status(tasks, id).outcome,
                  value |-> get_task_status(tasks, id)]
  /\ UNCHANGED tasks
  /\ StoreUnchanged

StoreGetResult(id) ==
  /\ response' = [op |-> "get_task_result", id |-> id,
                  outcome |-> get_task_result(tasks, id).outcome,
                  value |-> get_task_result(tasks, id)]
  /\ UNCHANGED tasks
  /\ StoreUnchanged

StoreNext ==
  \/ \E doc \in StoreDocuments : StoreCreateTask(doc)
  \/ \E id \in 1..(MaxTasks + 1) :
       \/ StoreSetStatus(id)
       \/ \E doc \in StoreDocuments :
            \E result \in PipelineResults(doc) : StoreSetResult(id, result)
       \/ StoreSetError(id, StepError)
       \/ StoreGetTask(id)
       \/ StoreGetStatus(id)
       \/ StoreGetResult(id)

StoreSpec == Init /\ [][StoreNext]_vars

\* ----------------------------------------------- the chunker on its own
\* chunk_document called with any document of the bounded set.
PipelineUnchanged ==
  UNCHANGED <<tasks, pc, exc, chunks, groups, wstate, results, fut,
              group_results, completed_groups, processed, all_results, retval,
              permits, holders, inflight, entry, outcomes, out_of_order,
              failure, response, progress, hung>>

ChunkerInit ==
  /\ PipelineIdle
  /\ document \in ChunkerDocuments(MaxPieces) \cup SpecialDocuments
  /\ stage = "start"
  /\ result_chunks = <<>>
  /\ final_chunks = <<>>
  /\ chunk_groups = <<>>
  /\ loop = NoLoop

\* total_tokens <= max_chunk_tokens: the document is returned as one chunk.
ReturnComplete ==
  /\ stage = "start"
  /\ ~EncodeRaises(document)
  /\ count_tokens(document) <= CHUNK_TOKEN_LIMIT
  /\ final_chunks' = CompleteChunk(document)
  /\ stage' = "returned"
  /\ UNCHANGED <<document, result_chunks, chunk_groups, loop>>
  /\ PipelineUnchanged

\* The first pass and the metadata loop.
SplitFirstPass ==
  /\ stage = "start"
  /\ ~EncodeRaises(document)
  /\ count_tokens(document) > CHUNK_TOKEN_LIMIT
  /\ result_chunks' = WithMetadata(FirstPass(document))
  /\ stage' = "second_pass"
  /\ UNCHANGED <<document, final_chunks, chunk_groups, loop>>
  /\ PipelineUnchanged

\* The second pass; chunk_document returns final_chunks.
SplitSecondPass ==
  /\ stage = "second_pass"
  /\ final_chunks' = SecondPass(<<>>, result_chunks)
  /\ stage' = "returned"
  /\ UNCHANGED <<document, result_chunks, chunk_groups, loop>>
  /\ PipelineUnchanged

\* count_tokens(content) raises at the top of the step: logger.step logs the
\* exception and does not raise it again, so chunk_document returns None.
TokenizerRaises ==
  /\ stage = "start"
  /\ EncodeRaises(document)
  /\ stage' = "returned_none"
  /\ UNCHANGED <<document, result_chunks, final_chunks, chunk_groups, loop>>
  /\ PipelineUnchanged

ChunkerNext ==
  ReturnComplete \/ SplitFirstPass \/ SplitSecondPass \/ TokenizerRaises

ChunkerSpec == ChunkerInit /\ [][ChunkerNext]_vars

\* ----------------------------------------------- the grouper on its own
\* create_chunk_groups called with any chunk list of the bounded set.
GrouperInputs ==
  {ChunksOf(d) :
     d \in UNION {[1..n -> {SmallTokens, BigTokens, HugeTokens}] :
                    n \in 0..MaxGroupInput}}

GrouperInit ==
  /\ PipelineIdle
  /\ document = <<>>
  /\ stage = "group"
  /\ result_chunks = <<>>
  /\ final_chunks \in GrouperInputs
  /\ chunk_groups = <<>>
  /\ loop = NoLoop

CreateChunkGroups ==
  /\ stage = "group"
  /\ chunk_groups' = create_chunk_groups(final_chunks)
  /\ stage' = "grouped"
  /\ UNCHANGED <<document, result_chunks, final_chunks, loop>>
  /\ PipelineUnchanged

GrouperNext == CreateChunkGroups

GrouperSpec == GrouperInit /\ [][GrouperNext]_vars

\* ------------------------------- the engine called with a progress callback
\* parallel_group_translate called on its own (call 1) with the groups of a
\* document and a progress_callback; translate_document passes none.
EngineInit ==
  /\ tasks = <<>>
  /\ exc = [t \in Tasks |-> NoError]
  /\ failure = [t \in Tasks |-> "none"]
  /\ completed_groups = [t \in Tasks |-> 0]
  /\ processed = [t \in Tasks |-> {}]
  /\ all_results = [t \in Tasks |-> <<>>]
  /\ retval = [t \in Tasks |-> NoneResult]
  /\ out_of_order = [t \in Tasks |-> FALSE]
  /\ permits = MAX_PARALLEL_GROUPS
  /\ holders = {}
  /\ inflight = {}
  /\ response = NoResponse
  /\ progress = NoProgress
  /\ hung = {}
  /\ UnitIdle
  /\ pc = [t \in Tasks |-> IF t = 1 THEN "dispatch" ELSE "idle"]
  /\ \E doc \in Documents :
       LET cs == ChunksOf(doc)
           gs == create_chunk_groups(cs)
           n == Len(gs)
       IN /\ chunks = [t \in Tasks |-> IF t = 1 THEN cs ELSE <<>>]
          /\ groups = [t \in Tasks |-> IF t = 1 THEN gs ELSE <<>>]
          /\ group_results =
               [t \in Tasks |-> IF t = 1 THEN [g \in 1..n |-> NoneList] ELSE <<>>]
          /\ wstate =
               [t \in Tasks |-> IF t = 1 THEN [g \in 1..n |-> "queued"] ELSE <<>>]
          /\ results =
               [t \in Tasks |-> IF t = 1 THEN [g \in 1..n |-> <<>>] ELSE <<>>]
          /\ fut =
               [t \in Tasks |-> IF t = 1 THEN [g \in 1..n |-> NoneList] ELSE <<>>]
          /\ entry =
               [t \in Tasks |-> IF t = 1 THEN [g \in 1..n |-> "none"] ELSE <<>>]
          /\ outcomes =
               [t \in Tasks |-> IF t = 1 THEN [g \in 1..n |-> <<>>] ELSE <<>>]

\* Mutant: a future is taken up while the callback of another still runs.
LoopIdle_Always == TRUE

\* The as_completed loop is at its head: the callback it called, if any,
\* has come back (the loop calls it synchronously).
LoopIdle == progress.active = {}

\* Mutant: the except branch of the loop clears the slot of the group.
AfterCallbackRaise_Clear(slots, idx) == [slots EXCEPT ![idx] = NoneList]

\* The except branch of the loop only logs: the slots stay as they are.
AfterCallbackRaise(slots, idx) == slots

\* One turn of the as_completed loop up to the call of progress_callback:
\* the slot is written, the counter raised, the callback entered with
\* (completed_groups, len(chunk_groups), results).
CollectWithCallback(t, g) ==
  /\ pc[t] = "dispatch"
  /\ wstate[t][g] = "done"
  /\ g \notin processed[t]
  /\ LoopIdle
  /\ group_results' = [group_results EXCEPT
                         ![t] = StoreGroupResult(@, g, fut[t][g])]
  /\ completed_groups' = [completed_groups EXCEPT ![t] = @ + 1]
  /\ processed' = [processed EXCEPT ![t] = @ \cup {g}]
  /\ out_of_order' = [out_of_order EXCEPT
                        ![t] = @ \/ \E h \in GroupIds(t) :
                                      h < g /\ h \notin processed[t]]
  /\ progress' =
       [calls |-> Append(progress.calls,
                         [completed |-> completed_groups[t] + 1,
                          total |-> Len(groups[t]),
                          results |-> fut[t][g],
                          group |-> g,
                          outcome |-> "running"]),
        active |-> progress.active \cup {g}]
  /\ UNCHANGED <<tasks, pc, exc, failure, chunks, groups, all_results, retval,
                 response, hung>>
  /\ UNCHANGED workerVars
  /\ UNCHANGED unitVars

\* The callback of group g returns or raises; the loop goes on either way.
CallbackEnd(t, g) ==
  /\ pc[t] = "dispatch"
  /\ g \in progress.active
  /\ \E k \in 1..Len(progress.calls) :
       /\ progress.calls[k].group = g
       /\ \/ /\ progress' = [calls |-> [progress.calls EXCEPT
                                          ![k].outcome = "returned"],
                              active |-> progress.active \ {g}]
             /\ UNCHANGED group_results
          \/ /\ progress' = [calls |-> [progress.calls EXCEPT
                                          ![k].outcome = "raised"],
                              active |-> progress.active \ {g}]
             /\ group_results' = [group_results EXCEPT
                                    ![t] = AfterCallbackRaise(@, g)]
  /\ UNCHANGED <<tasks, pc, exc, failure, chunks, groups, completed_groups,
                 processed, all_results, retval, out_of_order, response,
                 hung>>
  /\ UNCHANGED workerVars
  /\ UNCHANGED unitVars

\* The loop has ended and the executor has shut down.
EngineReturn(t) == LoopIdle /\ ReturnResults(t)

EngineNext ==
  \E t \in Tasks :
    \/ EngineReturn(t)
    \/ \E g \in GroupIds(t) :
         \/ Dequeue(t, g)
         \/ Acquire(t, g)
         \/ StartCall(t, g)
         \/ CallReturn(t, g)
         \/ Release(t, g)
         \/ CollectWithCallback(t, g)
         \/ CallbackEnd(t, g)

EngineSpec == EngineInit /\ [][EngineNext]_vars

\* --------------------------------------- the loops of the chunker, by turn
\* The two while loops of the chunker and the for loop of the second pass,
\* one turn at a time, for any text of the bounded set and any ceiling from
\* 1 to MaxCeiling.  loop.items is what the loop runs over, loop.current_pos
\* how far it has come (Python's 0-based position), loop.chunks its output.
LoopInputs(content) ==
  {[fn |-> "_split_by_length", max_chunk_tokens |-> c, items |-> content,
    current_pos |-> 0, chunks |-> <<>>] : c \in 1..MaxCeiling}
  \cup
  {[fn |-> "_force_split_by_tokens", max_chunk_tokens |-> c,
    items |-> encode(content), current_pos |-> 0, chunks |-> <<>>] :
     c \in 1..MaxCeiling}
  \cup
  {[fn |-> "second_pass", max_chunk_tokens |-> CHUNK_TOKEN_LIMIT,
    items |-> WithMetadata(FirstPass(content)), current_pos |-> 0,
    chunks |-> <<>>] : c \in {n \in {1} : count_tokens(content) > CHUNK_TOKEN_LIMIT}}

LoopInit ==
  /\ PipelineIdle
  /\ document = <<>>
  /\ stage = "loop_call"
  /\ result_chunks = <<>>
  /\ final_chunks = <<>>
  /\ chunk_groups = <<>>
  /\ loop = NoLoop

\* One of the loops is entered with some text and some ceiling.
LoopEnter ==
  /\ stage = "loop_call"
  /\ document' \in ChunkerDocuments(MaxLoopPieces)
  /\ loop' \in LoopInputs(document')
  /\ stage' = "loop"
  /\ UNCHANGED <<result_chunks, final_chunks, chunk_groups>>
  /\ PipelineUnchanged

\* Mutant: the end of a slice is one short.
EndPos_Short(current_pos, step, length) ==
  IF current_pos + step - 1 < length THEN current_pos + step - 1 ELSE length

\* end_pos = min(current_pos + step, len(...))
EndPos(current_pos, step, length) ==
  IF current_pos + step < length THEN current_pos + step ELSE length

\* One turn of the while loop of _split_by_length.
SplitByLengthTurn ==
  /\ stage = "loop"
  /\ loop.fn = "_split_by_length"
  /\ loop.current_pos < Len(loop.items)
  /\ LET end_pos == EndPos(loop.current_pos, loop.max_chunk_tokens * 3,
                           Len(loop.items))
     IN loop' = [loop EXCEPT
                   !.chunks = Append(@, SubSeq(loop.items,
                                               loop.current_pos + 1, end_pos)),
                   !.current_pos = end_pos]
  /\ UNCHANGED <<document, stage, result_chunks, final_chunks, chunk_groups>>
  /\ PipelineUnchanged

\* One turn of the while loop of _force_split_by_tokens.
ForceSplitTurn ==
  /\ stage = "loop"
  /\ loop.fn = "_force_split_by_tokens"
  /\ loop.current_pos < Len(loop.items)
  /\ LET end_pos == EndPos(loop.current_pos, loop.max_chunk_tokens,
                           Len(loop.items))
     IN loop' = [loop EXCEPT
                   !.chunks = Append(@, decode(SubSeq(loop.items,
                                                      loop.current_pos + 1,
                                                      end_pos))),
                   !.current_pos = end_pos]
  /\ UNCHANGED <<document, stage, result_chunks, final_chunks, chunk_groups>>
  /\ PipelineUnchanged

\* One turn of the for loop of the second pass: the next chunk of the first
\* pass is split once if it is oversized, and appended as it is otherwise.
SecondPassTurn ==
  /\ stage = "loop"
  /\ loop.fn = "second_pass"
  /\ loop.current_pos < Len(loop.items)
  /\ LET chunk == loop.items[loop.current_pos + 1]
     IN loop' = [loop EXCEPT
                   !.chunks = IF chunk.tokens > loop.max_chunk_tokens
                              THEN AppendSubChunks(
                                     @, _split_large_chunk(chunk.content))
                              ELSE Append(@, chunk),
                   !.current_pos = @ + 1]
  /\ UNCHANGED <<document, stage, result_chunks, final_chunks, chunk_groups>>
  /\ PipelineUnchanged

\* The loop condition is false: the function returns its list.
LoopReturn ==
  /\ stage = "loop"
  /\ loop.current_pos >= Len(loop.items)
  /\ stage' = "loop_returned"
  /\ UNCHANGED <<document, result_chunks, final_chunks, chunk_groups, loop>>
  /\ PipelineUnchanged

LoopNext ==
  LoopEnter \/ SplitByLengthTurn \/ ForceSplitTurn \/ SecondPassTurn \/ LoopReturn

LoopSpec == LoopInit /\ [][LoopNext]_vars

\* ------------------------------------ the engine with calls that block
\* One call of parallel_group_translate in which a backend call may block:
\* once a call is marked as hung it never returns (no timeout ends it), and
\* its worker stays inside the semaphore.  Every other step is taken sooner
\* or later.
HangInit == EngineInit

\* The backend call of group g never comes back.
Hang(t, g) ==
  /\ wstate[t][g] = "calling"
  /\ <<t, g>> \notin hung
  /\ hung' = hung \cup {<<t, g>>}
  /\ UNCHANGED <<tasks, pc, exc, failure, response, progress>>
  /\ UNCHANGED jobVars
  /\ UNCHANGED workerVars
  /\ UNCHANGED unitVars

\* A backend call that is not blocked returns or raises.
HangCallReturn(t, g) == <<t, g>> \notin hung /\ CallReturn(t, g)

HangNext ==
  \E t \in Tasks :
    \/ ReturnResults(t)
    \/ \E g \in GroupIds(t) :
         \/ Dequeue(t, g)
         \/ Acquire(t, g)
         \/ StartCall(t, g)
         \/ HangCallReturn(t, g)
         \/ Release(t, g)
         \/ Collect(t, g)
         \/ Hang(t, g)

\* Threads run, and every backend call that is not blocked comes back.
HangFairness(t, g) ==
  /\ WF_vars(g \in GroupIds(t) /\ Dequeue(t, g))
  /\ WF_vars(g \in GroupIds(t) /\ Acquire(t, g))
  /\ WF_vars(g \in GroupIds(t) /\ StartCall(t, g))
  /\ WF_vars(g \in GroupIds(t) /\ HangCallReturn(t, g))
  /\ WF_vars(g \in GroupIds(t) /\ Release(t, g))
  /\ WF_vars(g \in GroupIds(t) /\ Collect(t, g))

HangSpec ==
  /\ HangInit
  /\ [][HangNext]_vars
  /\ \A t \in Tasks :
       /\ WF_vars(ReturnResults(t))
       /\ \A g \in 1..MaxTotalChunks : HangFairness(t, g)

\* ================================================================= claims
\* parallel_group_translate has returned to translate_document for task t.
Returned(t) ==
  pc[t] \in {"set_result", "set_result_status", "done"} /\ failure[t] = "none"

\* The positions of the returned list that hold the result of a chunk.
PositionsOf(t, chunk) ==
  {j \in 1..Len(all_results[t]) : all_results[t][j].chunk_id = chunk.chunk_id}

\* The backend call of group g that failed, 0 if none did.
FailedCall(t, g) ==
  IF outcomes[t][g] # <<>> /\ outcomes[t][g][Len(outcomes[t][g])] # "ok"
  THEN Len(outcomes[t][g]) ELSE 0

\* C1: the list parallel_group_translate returns holds exactly one result
\* for every chunk of every input group, whatever succeeded or failed.
C1_OneResultPerChunk ==
  \A t \in Tasks :
    Returned(t) =>
      /\ Len(all_results[t]) = Len(chunks[t])
      /\ \A i \in 1..Len(chunks[t]) :
           Cardinality(PositionsOf(t, chunks[t][i])) = 1

\* C2: at most MAX_PARALLEL_GROUPS groups are between acquiring the semaphore
\* and the end of translate_group, so at most that many backend calls are in
\* flight; a group holds its permit from before its first backend call until
\* its last result is recorded.
C2_ConcurrencyBound ==
  /\ Cardinality(holders) <= MAX_PARALLEL_GROUPS
  /\ Cardinality(inflight) <= MAX_PARALLEL_GROUPS
  /\ \A c \in inflight : <<c[1], c[2]>> \in holders
  /\ \A t \in Tasks : \A g \in GroupIds(t) :
       /\ wstate[t][g] \in {"loop", "calling", "release"} => <<t, g>> \in holders
       /\ wstate[t][g] \in {"queued", "waiting"} =>
            outcomes[t][g] = <<>> /\ <<t, g>> \notin holders

C2_Witness ==
  /\ Cardinality(holders) = MAX_PARALLEL_GROUPS
  /\ Cardinality(inflight) = MAX_PARALLEL_GROUPS
  /\ \E t \in Tasks : \E g \in GroupIds(t) : wstate[t][g] = "waiting"

\* C3: when the backend call for the k-th chunk of a group fails,
\* translate_group returns one result per chunk of the group: chunks 1..k-1
\* keep their success results and translations, chunks k..n are failed
\* results that all carry the error text of the k-th call.
C3_PartialFailure ==
  \A t \in Tasks : \A g \in GroupIds(t) :
    LET k == FailedCall(t, g)
        group == groups[t][g]
        ret == fut[t][g]
    IN k > 0 =>
         /\ ~ret.none
         /\ Len(ret.items) = Len(group)
         /\ \A i \in 1..Len(group) :
              /\ ret.items[i].chunk_id = group[i].chunk_id
              /\ ret.items[i].original_content = group[i].content
              /\ i < k => ret.items[i] = SuccessResult(group[i])
              /\ i >= k => /\ ~ret.items[i].success
                           /\ ret.items[i].error = outcomes[t][g][k]
                           /\ ret.items[i].translated_content = EmptyText

C3_Witness ==
  \E t \in Tasks : \E g \in GroupIds(t) :
    /\ Len(groups[t][g]) = 3
    /\ FailedCall(t, g) = 2
    /\ wstate[t][g] = "done"

\* C4: success or failure of a chunk's result depends only on the backend
\* outcomes of its own group: when the call has returned, every group that
\* began its loop has made each backend call up to its own first failure, and
\* each of its chunks is in the returned list, as a success exactly if the
\* calls of its own group up to that chunk succeeded.
C4_GroupsIndependent ==
  \A t \in Tasks :
    Returned(t) =>
      \A g \in GroupIds(t) :
        entry[t][g] = "ok" =>
          LET k == FailedCall(t, g)
              group == groups[t][g]
          IN /\ Len(outcomes[t][g]) = IF k > 0 THEN k ELSE Len(group)
             /\ \A i \in 1..Len(group) :
                  /\ PositionsOf(t, group[i]) # {}
                  /\ \A j \in PositionsOf(t, group[i]) :
                       all_results[t][j].success <=> (k = 0 \/ i < k)

C4_Witness ==
  \E t \in Tasks :
    /\ Returned(t)
    /\ \E g, h \in GroupIds(t) :
         /\ g < h
         /\ FailedCall(t, g) > 0
         /\ entry[t][h] = "ok" /\ FailedCall(t, h) = 0
         /\ \A i \in 1..Len(groups[t][h]) :
              \E j \in PositionsOf(t, groups[t][h][i]) : all_results[t][j].success

\* C5: whatever the order in which the groups finish, the returned list is
\* in document order (chunk ids ascending), and so are the parts of the
\* assembled text.
C5_DocumentOrder ==
  \A t \in Tasks :
    Returned(t) =>
      /\ \A i, j \in 1..Len(all_results[t]) :
           i < j => all_results[t][i].chunk_id < all_results[t][j].chunk_id
      /\ Len(retval[t].translated_content) = Len(all_results[t])
      /\ \A i, j \in 1..Len(retval[t].translated_content) :
           i < j => retval[t].translated_content[i].text.id
                      < retval[t].translated_content[j].text.id

C5_Witness ==
  \E t \in Tasks :
    /\ Returned(t)
    /\ out_of_order[t]
    /\ Len(all_results[t]) = Len(chunks[t])
    /\ Len(groups[t]) >= 2

\* C6: when a group's processing raises outside the per-chunk loop, before
\* any chunk starts, the dispatcher still returns a failed result for every
\* chunk of that group.
C6_WorkerFailureGivesFailedResults ==
  \A t \in Tasks :
    Returned(t) =>
      \A g \in GroupIds(t) :
        entry[t][g] \in {"raised", "swallowed"} =>
          \A i \in 1..Len(groups[t][g]) :
            \E j \in PositionsOf(t, groups[t][g][i]) : ~all_results[t][j].success

\* C7: within a group at most one backend call is in flight, and the call
\* for position i is in flight only after the calls for positions 1..i-1 have
\* all returned successfully, in that order.
C7_SequentialInGroup ==
  \A t \in Tasks : \A g \in GroupIds(t) :
    LET calls == {c \in inflight : c[1] = t /\ c[2] = g}
    IN /\ Cardinality(calls) <= 1
       /\ \A c \in calls :
            /\ Len(outcomes[t][g]) = c[3] - 1
            /\ \A j \in 1..Len(outcomes[t][g]) : outcomes[t][g][j] = "ok"
            /\ Len(results[t][g]) = c[3] - 1
       /\ \A j \in 1..Len(outcomes[t][g]) :
            outcomes[t][g][j] # "ok" => j = Len(outcomes[t][g])

C7_Witness ==
  \E c \in inflight : c[3] = 2 /\ outcomes[c[1]][c[2]] = <<"ok">>

\* C8: the status of a task changes only from pending to running and from
\* running to completed or failed, and a completed or failed record is never
\* changed again.
StatusSteps ==
  {<<"pending", "running">>, <<"running", "completed">>, <<"running", "failed">>}

C8_Lifecycle ==
  [][\A id \in DOMAIN tasks :
       /\ tasks'[id].status # tasks[id].status =>
            <<tasks[id].status, tasks'[id].status>> \in StatusSteps
       /\ tasks[id].status \in {"completed", "failed"} => tasks'[id] = tasks[id]]_vars

C8_Witness ==
  \E a, b \in DOMAIN tasks :
    /\ tasks[a].status = "completed" /\ pc[a] = "done"
    /\ tasks[b].status = "failed" /\ pc[b] = "done"

\* C9: when the pipeline of a task fails as a whole, the task ends in status
\* failed with an error string and a null result.
C9_FailedPipelineEndsFailed ==
  \A t \in Tasks :
    (pc[t] = "done" /\ failure[t] # "none") =>
      /\ tasks[t].status = "failed"
      /\ tasks[t].error # NoError
      /\ tasks[t].result.none

\* C10: a completed task holds the record the assembly step of
\* translate_document produced for its request, never a null result.
C10_CompletedHasResult ==
  \A id \in DOMAIN tasks :
    tasks[id].status = "completed" =>
      /\ ~tasks[id].result.none
      /\ tasks[id].result = Assemble(all_results[id])

\* C11: provided every backend call eventually returns or raises, a call of
\* parallel_group_translate eventually returns, also while other calls run on
\* the same engine, and when it has returned every group of the call has
\* finished and none of its backend calls is in flight.
C11_Returns ==
  /\ [](\A t \in Tasks :
          Returned(t) =>
            /\ \A g \in GroupIds(t) : wstate[t][g] = "done"
            /\ \A c \in inflight : c[1] # t)
  /\ \A t \in Tasks : (pc[t] = "dispatch") ~> (pc[t] = "set_result")

C11_Witness ==
  \E t, u \in Tasks :
    /\ t # u
    /\ Returned(t) /\ pc[t] = "set_result"
    /\ Len(groups[t]) >= 2
    /\ pc[u] = "dispatch"
    /\ \E c \in inflight : c[1] = u

\* The job run_translation_task of task t has ended: it returned, or an
\* exception left its except branch.
JobEnded(t) == pc[t] \in {"done", "crashed"}

\* C12: every submitted task reaches completed or failed, whether its
\* pipeline succeeds or raises: once the job of a task has ended, the status
\* of the task is completed or failed.
C12_EveryTaskEnds ==
  \A t \in DOMAIN tasks :
    JobEnded(t) => tasks[t].status \in {"completed", "failed"}

\* The ids a client may ask for: those of the store and unknown ones.
ClientIds == 1..(MaxTasks + 1)

\* C13: get_task_result returns the content and the usage exactly when the
\* task exists and is completed; a pending, running or failed task gives the
\* not-ready response and an unknown id the not-found response.
C13_ResultOnlyWhenCompleted ==
  \A id \in ClientIds :
    LET r == get_task_result(tasks, id)
    IN /\ id \notin DOMAIN tasks => r.outcome = "404"
       /\ id \in DOMAIN tasks =>
            /\ tasks[id].status \in {"pending", "running", "failed"} =>
                 r.outcome = "202"
            /\ tasks[id].status = "completed" =>
                 /\ r.outcome = "200"
                 /\ r.translated_content = tasks[id].result.translated_content
                 /\ r.usage = tasks[id].result.usage

\* C14: get_task on an unknown id returns the not-found value without
\* raising (the status handler answers not-found); set_status, set_result and
\* set_error on an unknown id raise, leave every record unchanged and create
\* no record.
C14_UnknownId ==
  [][LET r == response'
     IN /\ (r.op \in {"set_status", "set_result", "set_error"}
             /\ r.id \notin DOMAIN tasks) =>
               r.outcome = "KeyError" /\ tasks' = tasks
        /\ (r.op = "get_task" /\ r.id \notin DOMAIN tasks) =>
               r.outcome = "returned" /\ r.value.none /\ tasks' = tasks
        /\ (r.op = "get_task_status" /\ r.id \notin DOMAIN tasks) =>
               r.outcome = "404" /\ tasks' = tasks]_vars

C14_Witness ==
  /\ response.op = "set_result"
  /\ response.id \notin DOMAIN tasks
  /\ response.outcome = "KeyError"
  /\ \E id \in DOMAIN tasks : tasks[id].status = "running"

\* The contents of a chunk list, one after the other.
ContentsOf(cs) == Concat([i \in 1..Len(cs) |-> cs[i].content])

\* C15: the chunk ids of the returned list are unique, dense and ascending:
\* the chunk at list position p (from 0) has chunk_id p, also when some chunks
\* of the first pass were split again and others were not.
C15_DenseChunkIds ==
  stage = "returned" =>
    \A p \in 1..Len(final_chunks) : final_chunks[p].chunk_id = p - 1

\* C16: every chunk of the returned list has a token count within the chunk
\* token ceiling, whichever path produced it.
C16_ChunksWithinCeiling ==
  stage = "returned" =>
    \A p \in 1..Len(final_chunks) :
      /\ final_chunks[p].tokens = count_tokens(final_chunks[p].content)
      /\ final_chunks[p].tokens <= CHUNK_TOKEN_LIMIT

C16_Witness ==
  /\ stage = "returned"
  /\ \E p, q \in 1..Len(final_chunks) :
       /\ final_chunks[p].type = "chunk"
       /\ final_chunks[q].type = "sub_chunk"
       /\ final_chunks[q].tokens = CHUNK_TOKEN_LIMIT
       /\ Contains(final_chunks[q].content, <<"R">>)

\* C17: a document whose token count is within the ceiling, the empty one
\* included, comes back as exactly one chunk with id 0, kind complete, the
\* content unchanged and the document's token count.
C17_SmallDocumentOneChunk ==
  (stage = "returned" /\ count_tokens(document) <= CHUNK_TOKEN_LIMIT) =>
    final_chunks = <<[content |-> document, tokens |-> count_tokens(document),
                      chunk_id |-> 0, type |-> "complete"]>>

C17_Witness ==
  /\ stage = "returned"
  /\ count_tokens(document) = CHUNK_TOKEN_LIMIT
  /\ Head(document) \in Whitespace
  /\ Len(final_chunks) = 1

\* C18: the contents of the returned chunks, one after the other, are the
\* source with nothing but whitespace removed: no other character, separator
\* characters such as sentence terminators included, is lost, duplicated or
\* put elsewhere.
C18_ContentPreserved ==
  stage = "returned" =>
    NonWhitespace(ContentsOf(final_chunks)) = NonWhitespace(document)

\* The token total of a group.
GroupTokens(group) == SumSeq([i \in 1..Len(group) |-> group[i].tokens])

\* C19: create_chunk_groups is an order-preserving partition of its input:
\* the groups, one after the other, are the input list.
C19_GroupsPartitionInput ==
  stage = "grouped" => Concat(chunk_groups) = final_chunks

C19_Witness ==
  /\ stage = "grouped"
  /\ Len(chunk_groups) >= 3
  /\ \E g \in 1..Len(chunk_groups) : Len(chunk_groups[g]) >= 2
  /\ Len(final_chunks) = MaxGroupInput

\* C20: every group has at most DEFAULT_GROUP_SIZE chunks and a token total
\* of at most int(MAX_TOKENS * GROUP_TOKEN_RATIO); the only exception to the
\* token limit is a group of one chunk that alone exceeds it.
C20_GroupLimits ==
  stage = "grouped" =>
    \A g \in 1..Len(chunk_groups) :
      /\ Len(chunk_groups[g]) <= DEFAULT_GROUP_SIZE
      /\ \/ GroupTokens(chunk_groups[g]) <= max_group_tokens
         \/ /\ Len(chunk_groups[g]) = 1
            /\ chunk_groups[g][1].tokens > max_group_tokens

C20_Witness ==
  /\ stage = "grouped"
  /\ \E g \in 1..Len(chunk_groups) : Len(chunk_groups[g]) = DEFAULT_GROUP_SIZE
  /\ \E g \in 1..Len(chunk_groups) :
       GroupTokens(chunk_groups[g]) > max_group_tokens

\* The chunk of task t that a result belongs to.
ChunkOf(t, result) == chunks[t][result.chunk_id + 1]

\* C21: the assembled text of translate_document has exactly one part per
\* chunk of the document: the translation of a chunk whose result succeeded,
\* and for a failed chunk the marked block with the error and the chunk's
\* original content; no chunk is missing from the text.
C21_OnePartPerChunk ==
  \A t \in Tasks :
    Returned(t) =>
      LET parts == retval[t].translated_content
      IN /\ Len(parts) = Len(chunks[t])
         /\ \A i \in 1..Len(parts) :
              \/ /\ parts[i].kind = "translated"
                 /\ parts[i].text = LLMResponse(chunks[t][i]).content
              \/ /\ parts[i].kind = "failed"
                 /\ parts[i].error # NoError
                 /\ parts[i].text = chunks[t][i].content

\* C22: the usage totals of translate_document are the sums over the
\* succeeded results only: the token counts of their chunks for the input,
\* their output_tokens for the output; a failed chunk adds nothing.
C22_UsageOverSucceeded ==
  \A t \in Tasks :
    Returned(t) =>
      LET rs == all_results[t]
      IN /\ retval[t].usage.input_tokens =
              SumSeq([j \in 1..Len(rs) |->
                        IF rs[j].success THEN ChunkOf(t, rs[j]).tokens ELSE 0])
         /\ retval[t].usage.output_tokens =
              SumSeq([j \in 1..Len(rs) |->
                        IF rs[j].success THEN rs[j].output_tokens ELSE 0])

C22_Witness ==
  \E t \in Tasks :
    /\ Returned(t)
    /\ \E i, j \in 1..Len(all_results[t]) :
         all_results[t][i].success /\ ~all_results[t][j].success
    /\ retval[t].usage.input_tokens > 0
    /\ retval[t].usage.output_tokens > retval[t].usage.input_tokens

\* The chunks in the order in which their results enter the list that
\* parallel_group_translate returns: group by group, and within a group in
\* the order of the group; every result carries the chunk_id of its chunk.
ResultOrder(cs) == Concat(create_chunk_groups(cs))

\* C23: in the result list the assembly loop of translate_document consumes,
\* chunk_id is strictly increasing from one result to the next, for every
\* document.
C23_ResultIdsIncreasing ==
  stage = "returned" =>
    LET order == ResultOrder(final_chunks)
    IN \A i, j \in 1..Len(order) :
         i < j => order[i].chunk_id < order[j].chunk_id

\* The orders in which a list of n results can be presented.
Orders(n) == {p \in [1..n -> 1..n] : \A i, j \in 1..n : i # j => p[i] # p[j]}

\* C24: assembly is a function of the set of results: presented in any
\* order, the same results give the same text and the same usage totals.
C24_AssemblyOrderIndependent ==
  \A t \in Tasks :
    Returned(t) =>
      LET rs == all_results[t]
      IN \A p \in Orders(Len(rs)) :
           Assemble([i \in 1..Len(rs) |-> rs[p[i]]]) = Assemble(rs)

\* The groups whose callback invocation is recorded.
CalledGroups == {progress.calls[k].group : k \in 1..Len(progress.calls)}

\* C25: a supplied progress callback is invoked exactly once for each group,
\* never while another invocation runs, with the completed counts 1, 2, ...,
\* N in this order, the total N, and what the group that just completed
\* returned.
C25_CallbackOncePerGroup ==
  LET cs == progress.calls
  IN /\ Cardinality(progress.active) <= 1
     /\ \A k \in 1..Len(cs) :
          /\ cs[k].completed = k
          /\ cs[k].total = Len(groups[1])
          /\ wstate[1][cs[k].group] = "done"
          /\ cs[k].results = fut[1][cs[k].group]
     /\ \A k, l \in 1..Len(cs) : k # l => cs[k].group # cs[l].group
     /\ Returned(1) =>
          /\ CalledGroups = GroupIds(1)
          /\ Len(cs) = Len(groups[1])
          /\ \A k \in 1..Len(cs) : cs[k].outcome # "running"

C25_Witness ==
  /\ Returned(1)
  /\ Len(progress.calls) = 3
  /\ out_of_order[1]
  /\ \E k \in 1..3 : progress.calls[k].outcome = "returned"

\* C26: when the progress callback raises for a group, the remaining groups
\* are still processed and the returned list holds what every group
\* returned, the group whose callback raised included.
C26_CallbackErrorContained ==
  Returned(1) =>
    /\ processed[1] = GroupIds(1)
    /\ \A g \in GroupIds(1) : group_results[1][g] = fut[1][g]
    /\ all_results[1] = Flatten(fut[1])

C26_Witness ==
  /\ Returned(1)
  /\ Len(groups[1]) >= 2
  /\ progress.calls[1].outcome = "raised"
  /\ Len(progress.calls) = Len(groups[1])
  /\ Len(all_results[1]) = Len(chunks[1])


\* The backend calls group g of task t has made so far: those that came back
\* and the one in flight.
CallsMade(t, g) ==
  Len(outcomes[t][g]) + Cardinality({c \in inflight : c[1] = t /\ c[2] = g})

\* C27: every chunk is sent to the backend at most once (a failed call is
\* not retried), and after a failed call of a group no call is made for any
\* later chunk of that group.
C27_NoRetryNoCallAfterFailure ==
  \A t \in Tasks : \A g \in GroupIds(t) :
    LET out == outcomes[t][g]
        failed == {j \in 1..Len(out) : out[j] # "ok"}
    IN /\ CallsMade(t, g) <= Len(groups[t][g])
       /\ Cardinality(failed) <= 1
       /\ Len(out) = Len(results[t][g]) + Cardinality(failed)
       /\ failed # {} =>
            /\ CallsMade(t, g) = FailedCall(t, g)
            /\ wstate[t][g] \notin {"loop", "calling"}

C27_Witness ==
  \E t \in Tasks : \E g \in GroupIds(t) :
    /\ Len(groups[t][g]) >= 2
    /\ FailedCall(t, g) = 1
    /\ wstate[t][g] = "done"


\* C28: the grouping is greedy-maximal: of two consecutive groups, the first
\* either has DEFAULT_GROUP_SIZE chunks or its token total plus the tokens
\* of the first chunk of the second exceeds the group token limit.
C28_GreedyMaximal ==
  stage = "grouped" =>
    \A g \in 1..(Len(chunk_groups) - 1) :
      \/ Len(chunk_groups[g]) = DEFAULT_GROUP_SIZE
      \/ GroupTokens(chunk_groups[g]) + chunk_groups[g + 1][1].tokens
           > max_group_tokens

C28_Witness ==
  /\ stage = "grouped"
  /\ \E g \in 1..(Len(chunk_groups) - 1) :
       /\ Len(chunk_groups[g]) = DEFAULT_GROUP_SIZE
       /\ GroupTokens(chunk_groups[g]) + chunk_groups[g + 1][1].tokens
            <= max_group_tokens
  /\ \E g \in 1..(Len(chunk_groups) - 1) :
       /\ Len(chunk_groups[g]) < DEFAULT_GROUP_SIZE
       /\ GroupTokens(chunk_groups[g]) + chunk_groups[g + 1][1].tokens
            > max_group_tokens

\* The chunks that alone exceed the group token limit.
Oversized(chunk) == chunk.tokens > max_group_tokens

\* C29: create_chunk_groups returns no empty group, and a chunk that alone
\* exceeds the group token limit is in a group of its own, also when it is
\* the first chunk of the list or follows another such chunk.
C29_NoEmptyGroupOversizedAlone ==
  stage = "grouped" =>
    \A g \in 1..Len(chunk_groups) :
      /\ chunk_groups[g] # <<>>
      /\ \A i \in 1..Len(chunk_groups[g]) :
           Oversized(chunk_groups[g][i]) => chunk_groups[g] = <<chunk_groups[g][i]>>

C29_Witness ==
  /\ stage = "grouped"
  /\ Len(final_chunks) >= 3
  /\ Oversized(final_chunks[1])
  /\ Oversized(final_chunks[2])
  /\ ~Oversized(final_chunks[3])
  /\ chunk_groups[1] = <<final_chunks[1]>>
  /\ chunk_groups[2] = <<final_chunks[2]>>


\* chunk_document has come back, with a list or with None.
ChunkerEnded == stage \in {"returned", "returned_none"}

\* C30: chunk_document returns a non-empty chunk list for every document,
\* also for a document over the ceiling whose separator yields only blank
\* segments.
C30_NonEmptyChunkList ==
  ChunkerEnded => stage = "returned" /\ final_chunks # <<>>


\* The separator of the first pass, when it is a heading separator (the
\* first six of CHUNK_SEPARATORS): 0 if the first pass uses another one.
HeadingUsed(content) ==
  LET used == UsedSeparators(content)
  IN IF used # {} /\ (CHOOSE k \in used : \A h \in used : k <= h) <= 6
     THEN CHOOSE k \in used : \A h \in used : k <= h
     ELSE 0

\* The segments of the first pass that follow a heading separator: all but
\* the first when the text before the first heading is not blank.
HeadingSegments(content) ==
  LET sep == CHUNK_SEPARATORS[HeadingUsed(content)]
      segs == _split_by_separator(content, sep)
  IN IF strip(split(content, sep)[1]) # <<>> THEN Tail(segs) ELSE segs

\* text.startswith(prefix)
StartsWith(text, prefix) ==
  Len(text) >= Len(prefix) /\ SubSeq(text, 1, Len(prefix)) = prefix

\* C31: when the first pass splits on a heading separator, every returned
\* segment other than the one before the first heading begins with the
\* heading marker, the separator without its leading newline.
C31_HeadingMarkerKept ==
  stage = "second_pass" /\ HeadingUsed(document) # 0 =>
    LET sep == CHUNK_SEPARATORS[HeadingUsed(document)]
        segs == HeadingSegments(document)
    IN /\ Len(segs) = Len(split(document, sep)) - 1
       /\ \A i \in 1..Len(segs) : StartsWith(segs[i], Tail(sep))

\* C31, amended: every such segment begins with the stripped separator (the
\* "#" signs); it begins with the whole marker, the blank included, unless
\* the heading has no text at all and the segment is the "#" signs alone.
C31_HeadingSignsKept ==
  stage = "second_pass" /\ HeadingUsed(document) # 0 =>
    LET sep == CHUNK_SEPARATORS[HeadingUsed(document)]
        segs == HeadingSegments(document)
    IN /\ Len(segs) = Len(split(document, sep)) - 1
       /\ \A i \in 1..Len(segs) :
            /\ StartsWith(segs[i], strip(sep))
            /\ StartsWith(segs[i], Tail(sep)) \/ segs[i] = strip(sep)
       /\ \A i \in 1..Len(result_chunks) :
            i > Len(result_chunks) - Len(segs) =>
              result_chunks[i].content = segs[i - (Len(result_chunks) - Len(segs))]

C31_Witness ==
  /\ stage = "second_pass"
  /\ HeadingUsed(document) # 0
  /\ Len(result_chunks) = 3
  /\ ~StartsWith(result_chunks[1].content, <<"#">>)
  /\ result_chunks[2].content = <<"#">>
  /\ StartsWith(result_chunks[3].content, <<"#", " ", "a">>)


\* What a loop still has before it: the items from its position to the end.
TurnsLeft(lp) == Len(lp.items) - lp.current_pos

\* C32: chunk_document terminates, for any positive ceiling: every turn of
\* the slicing loop and of the forced split loop moves the position on by at
\* least one and never past the end, so that what is left gets smaller with
\* every turn and is never negative; the second pass takes every chunk of the
\* first pass once and puts none back; a loop that has nothing left takes no
\* further turn and returns, the second pass with the list chunk_document
\* returns.
C32_ChunkingTerminates ==
  /\ [][stage = "loop" /\ stage' = "loop" =>
          /\ loop'.current_pos >= loop.current_pos + 1
          /\ loop'.current_pos <= Len(loop.items)
          /\ loop'.items = loop.items
          /\ TurnsLeft(loop') < TurnsLeft(loop)
          /\ TurnsLeft(loop') >= 0
          /\ loop.fn = "second_pass" => loop'.current_pos = loop.current_pos + 1]_vars
  /\ [](stage = "loop_returned" =>
          /\ loop.current_pos = Len(loop.items)
          /\ loop.fn = "second_pass" => loop.chunks = SecondPass(<<>>, loop.items))
  /\ [][stage = "loop" /\ TurnsLeft(loop) = 0 =>
          stage' = "loop_returned" /\ loop' = loop]_vars

C32_Witness ==
  /\ stage = "loop_returned"
  /\ loop.fn = "_force_split_by_tokens"
  /\ loop.max_chunk_tokens = 1
  /\ Len(loop.chunks) >= 3


\* The pipeline of task t has not begun: its job has not gone past the call
\* of set_status, nothing is chunked, no worker and no backend call exists.
PipelineNotBegun(t) ==
  /\ pc[t] = "queued"
  /\ chunks[t] = <<>>
  /\ groups[t] = <<>>
  /\ wstate[t] = <<>>
  /\ retval[t] = NoneResult
  /\ failure[t] = "none"
  /\ ~\E c \in inflight : c[1] = t

\* C33: the status of a task is set to running before any step of its
\* pipeline starts: while the status is pending there is no chunking and no
\* backend call for the task.
C33_RunningBeforePipeline ==
  \A t \in 1..Len(tasks) :
    tasks[t].status = "pending" => PipelineNotBegun(t)

C33_Witness ==
  \E t, u \in 1..Len(tasks) :
    /\ tasks[t].status = "pending"
    /\ tasks[u].status = "running"
    /\ \E c \in inflight : c[1] = u


\* Group g of task t has been submitted and has not finished.
Unfinished(t, g) == g \in GroupIds(t) /\ wstate[t][g] # "done"

\* Group g of task t has finished, or its own backend call is blocked.
FinishedOrBlocked(t, g) ==
  g \in GroupIds(t) /\ (wstate[t][g] = "done" \/ <<t, g>> \in hung)

C35_StoreFrame ==
  [][LET r == response'
     IN /\ DOMAIN tasks \subseteq DOMAIN tasks'
        /\ \A i \in DOMAIN tasks :
             tasks'[i].request_data = tasks[i].request_data
        /\ r.op = "create_task" =>
             /\ r.id \notin DOMAIN tasks
             /\ DOMAIN tasks' = DOMAIN tasks \cup {r.id}
             /\ tasks'[r.id] = [status |-> "pending", result |-> NoneResult,
                                error |-> NoError,
                                request_data |-> r.request_data]
             /\ \A i \in DOMAIN tasks : tasks'[i] = tasks[i]
        /\ r.op # "create_task" =>
             /\ DOMAIN tasks' = DOMAIN tasks
             /\ \A i \in DOMAIN tasks : i # r.id => tasks'[i] = tasks[i]]_vars

C35_Witness ==
  /\ Len(tasks) = 2
  /\ response.op = "set_error"
  /\ response.id = 1
  /\ tasks[1].status = "failed"
  /\ tasks[1].error # NoError
  /\ tasks[2] = NewTask([content |-> <<SmallTokens>>])
  /\ tasks[1].request_data = [content |-> <<BigTokens>>]


\* C36: whenever the status of a task reads completed, the result handed to
\* set_result is already in the record, and it stays there: a poll that
\* reads the status and then the result, with steps of the job in between,
\* never reads a result that is not written yet.
C36_ResultBeforeCompleted ==
  /\ [](\A t \in 1..Len(tasks) :
          tasks[t].status = "completed" =>
            /\ pc[t] \in {"set_result_status", "done"}
            /\ tasks[t].result = retval[t])
  /\ [][\A t \in 1..Len(tasks) :
          tasks[t].status = "completed" =>
            tasks'[t].status = "completed" /\ tasks'[t].result = tasks[t].result]_vars

C36_Witness ==
  \E t \in 1..Len(tasks) :
    /\ pc[t] = "set_result_status"
    /\ tasks[t].status = "running"
    /\ tasks[t].result = retval[t]
    /\ retval[t] # NoneResult


Processing(t) ==
  {g \in GroupIds(t) : wstate[t][g] \in {"loop", "calling", "release"}}

\* C38: with several translation calls running at once on the one engine,
\* each with its own pool, the groups being processed, counted over all the
\* calls together, never exceed MAX_PARALLEL_GROUPS, since the calls share
\* the engine's semaphore.
C38_SharedSemaphoreBound ==
  SumSeq([t \in Tasks |-> Cardinality(Processing(t))]) <= MAX_PARALLEL_GROUPS

C38_Witness ==
  /\ SumSeq([t \in Tasks |-> Cardinality(Processing(t))]) = MAX_PARALLEL_GROUPS
  /\ \A t \in Tasks : Processing(t) # {}
  /\ \E t \in Tasks : \E g \in GroupIds(t) : wstate[t][g] = "waiting"


\* The call of parallel_group_translate of task t has returned or has never
\* been made.
CallOver(t) == pc[t] # "dispatch"

\* C39: the permits of the semaphore are conserved: the permits taken are
\* as many as the groups inside the critical section of
\* translate_single_group, and those groups are the holders; once
\* parallel_group_translate has returned, whatever the mix of successes and
\* failures of its groups, none of its groups holds a permit, and with no
\* call under way all MAX_PARALLEL_GROUPS permits are available.
C39_PermitsConserved ==
  /\ permits \in 0..MAX_PARALLEL_GROUPS
  /\ MAX_PARALLEL_GROUPS - permits = Cardinality(holders)
  /\ holders = {tg \in Tasks \X (1..MaxTotalChunks) :
                  tg[2] \in Processing(tg[1])}
  /\ \A t \in Tasks : CallOver(t) => \A tg \in holders : tg[1] # t
  /\ (\A t \in Tasks : CallOver(t)) => permits = MAX_PARALLEL_GROUPS

C39_Witness ==
  \E t \in Tasks :
    /\ Returned(t)
    /\ permits = MAX_PARALLEL_GROUPS
    /\ \E g, h \in GroupIds(t) :
         /\ \E k \in 1..Len(outcomes[t][g]) : outcomes[t][g][k] # "ok"
         /\ outcomes[t][h] # <<>>
         /\ \A k \in 1..Len(outcomes[t][h]) : outcomes[t][h][k] = "ok"

====
